---- MODULE Spec2Model ----
(***************************************************************************)
(* Block production scheduler of the katana sequencer node:                *)
(* crates/katana/core/src/service/mod.rs.                                  *)
(*                                                                         *)
(* BlockProductionTask::poll and TransactionMiner::poll are modelled at    *)
(* the granularity of their calls on the shared collaborators (the         *)
(* notification channel, the pool and the block producer), which other     *)
(* parts of the node drive concurrently with the task's turn.              *)
(***************************************************************************)
EXTENDS Naturals, Sequences, FiniteSets

(* ------------------------------ bounds --------------------------------- *)

\* transactions that ever become ready in the pool (resident at startup included)
MaxAdds == 2
\* transactions resident in the pool at node startup
MaxInitPool == 2
\* capacity of the notification channel's buffer
RxCapacity == 2

\* largest transaction id of a run
MaxId == IF MaxAdds > MaxInitPool THEN MaxAdds ELSE MaxInitPool

\* hash (Felt) of the n-th transaction that becomes ready: neighbours differ,
\* and a hash comes back when the pool reintroduces a transaction
HashOf(n) == (n % 2) + 1

\* execution statistics reported for block n: gas and steps differ from each
\* other and from block to block
StatsOf(n) == [l1_gas_used |-> n, cairo_steps_used |-> 2 * n + 1]

(* ------------------------------ state ---------------------------------- *)

VARIABLES
    \* BlockProductionTask / TransactionMiner
    pc,               \* position of the task inside poll ("idle" = suspended)
    has_pending_txs,  \* TransactionMiner.has_pending_txs: "None", "SomeTrue", "SomeFalse"
    rxDone,           \* Fuse: the notification stream has returned None
    pool_txs,         \* batch returned by the miner, about to be queued
    metrics,          \* BlockProducerMetrics counters
    \* scheduler
    woken,            \* the task's waker has been invoked: a turn is due
    rxWaker,          \* the channel holds the task's waker
    bpWaker,          \* the block producer holds the task's waker
    \* collaborators
    pool,             \* ready transactions, in the pool's order
    unsent,           \* hashes the pool still has to notify
    nAdded,           \* transactions that became ready so far
    rx,               \* notifications buffered in the channel
    closed,           \* all senders of the channel are gone
    queued,           \* batches queued in the block producer
    completed,        \* outcomes buffered in the completion stream
    bpEnded,          \* the completion stream has ended
    \* observation of the whole run
    takenLog,         \* transactions returned by non-empty takes, concatenated
    enqLog,           \* transactions handed to BlockProducer::queue, concatenated
    emittedLog,       \* outcomes the block producer emitted, in order
    processedLog,     \* outcomes the task matched on, in order
    sinceTake,        \* notifications drained since the last non-empty take
    unanswered,       \* batches queued whose outcome the task has not consumed
    startup,          \* the first turn is not over and no notification was sent yet
    \* observation of the current turn, cleared when the task returns
    lastBp,           \* most recent completion-stream poll: "item", or "pending" for no item
    drainRun,         \* outcomes consumed by the current run of the drain loop
    turnStartEmitted, \* outcomes emitted when the turn began
    turnStartBuffered,\* outcomes buffered in the stream when the turn began
    polledEmitted,    \* outcomes emitted when the stream was last polled
    minerPollClosed,  \* the channel was closed when the current miner poll began
    turnQueued,       \* batches queued in the turn
    minerPolls,       \* calls of TransactionMiner::poll in the turn
    takes,            \* calls of pool.take_transactions() in the turn
    drained,          \* notifications drained by the current miner poll
    lateNotify        \* notifications sent in the turn too late for its first miner poll to
                      \* drain: "none", "in_poll" (before it returned), "after_poll"

taskVars == <<pc, has_pending_txs, rxDone, pool_txs, metrics>>
wakeVars == <<woken, rxWaker, bpWaker>>
poolVars == <<pool, unsent, nAdded>>
chanVars == <<rx, closed>>
bpVars   == <<queued, completed, bpEnded>>
logVars  == <<takenLog, enqLog, emittedLog, processedLog>>
turnVars == <<sinceTake, unanswered, startup, lastBp, drainRun,
              turnStartEmitted, turnStartBuffered, polledEmitted, minerPollClosed,
              turnQueued, minerPolls, takes, drained, lateNotify>>

vars == <<taskVars, wakeVars, poolVars, chanVars, bpVars, logVars, turnVars>>

(* ------------------------------ helpers -------------------------------- *)

RECURSIVE SeqMap(_, _)
SeqMap(F(_), s) ==
    IF s = <<>> THEN <<>> ELSE <<F(Head(s))>> \o SeqMap(F, Tail(s))

Reverse(s) == [i \in 1..Len(s) |-> s[Len(s) + 1 - i]]

RemoveAt(s, i) == SubSeq(s, 1, i - 1) \o SubSeq(s, i + 1, Len(s))

Ids(s) == { s[i].id : i \in 1..Len(s) }

\* pool entry -> the transaction the miner clones out of it
TxOf(entry) == entry.tx

\* P::Transaction -> ExecutableTxWithHash
IntoExecutable(tx) == [hash |-> tx.hash, executable |-> TRUE]

IsOk(res) == res.kind = "Ok"

RECURSIVE SumGas(_)
SumGas(s) ==
    IF s = <<>> THEN 0
    ELSE (IF IsOk(Head(s)) THEN Head(s).outcome.stats.l1_gas_used ELSE 0) + SumGas(Tail(s))

RECURSIVE SumSteps(_)
SumSteps(s) ==
    IF s = <<>> THEN 0
    ELSE (IF IsOk(Head(s)) THEN Head(s).outcome.stats.cairo_steps_used ELSE 0)
         + SumSteps(Tail(s))

RECURSIVE CountOk(_)
CountOk(s) ==
    IF s = <<>> THEN 0 ELSE (IF IsOk(Head(s)) THEN 1 ELSE 0) + CountOk(Tail(s))

IsPrefix(s, t) == Len(s) =< Len(t) /\ SubSeq(t, 1, Len(s)) = s

\* pool contents at startup: up to MaxInitPool resident transactions
RECURSIVE InitPools(_)
InitPools(n) ==
    IF n = 0 THEN { <<>> }
    ELSE InitPools(n - 1) \cup
         { Append(p, [id |-> n, tx |-> [hash |-> HashOf(n)]]) :
             p \in { q \in InitPools(n - 1) : Len(q) = n - 1 } }

(* ------------------------------- Init ---------------------------------- *)

Init ==
    /\ pc = "idle"
    /\ has_pending_txs = "None"
    /\ rxDone = FALSE
    /\ pool_txs = <<>>
    /\ metrics = [l1_gas_processed_total |-> 0, cairo_steps_processed_total |-> 0]
    /\ woken = TRUE
    /\ rxWaker = FALSE
    /\ bpWaker = FALSE
    /\ pool \in InitPools(MaxInitPool)
    /\ unsent = <<>>
    /\ nAdded = Len(pool)
    /\ rx = <<>>
    /\ closed = FALSE
    /\ queued = <<>>
    /\ completed = <<>>
    /\ bpEnded = FALSE
    /\ takenLog = <<>>
    /\ enqLog = <<>>
    /\ emittedLog = <<>>
    /\ processedLog = <<>>
    /\ sinceTake = "no_batch_yet"
    /\ unanswered = 0
    /\ startup = TRUE
    /\ lastBp = "none"
    /\ drainRun = <<>>
    /\ turnStartEmitted = 0
    /\ turnStartBuffered = 0
    /\ polledEmitted = 0
    /\ minerPollClosed = FALSE
    /\ turnQueued = 0
    /\ minerPolls = 0
    /\ takes = 0
    /\ drained = 0
    /\ lateNotify = "none"

\* break out of the loop and return Poll::Pending: the turn is over
EndTurn ==
    /\ pc' = "idle"
    /\ startup' = FALSE
    /\ lastBp' = "none"
    /\ drainRun' = <<>>
    /\ turnStartEmitted' = 0
    /\ turnStartBuffered' = 0
    /\ polledEmitted' = 0
    /\ minerPollClosed' = FALSE
    /\ turnQueued' = 0
    /\ minerPolls' = 0
    /\ takes' = 0
    /\ drained' = 0
    /\ lateNotify' = "none"

(* ---------------------------- scheduler -------------------------------- *)

\* the scheduler polls the task: once after spawning it, then after every wake-up
TurnStart ==
    /\ pc = "idle"
    /\ woken
    /\ woken' = FALSE
    /\ pc' = "bp_poll"
    /\ turnStartEmitted' = Len(emittedLog)
    /\ turnStartBuffered' = Len(completed)
    /\ UNCHANGED <<has_pending_txs, rxDone, pool_txs, metrics, rxWaker, bpWaker,
                   poolVars, chanVars, bpVars, logVars, sinceTake, unanswered, startup,
                   lastBp, drainRun, polledEmitted, minerPollClosed, turnQueued,
                   minerPolls, takes, drained, lateNotify>>

(* ----------------------- BlockProductionTask::poll --------------------- *)

\* seeded fault: the newest buffered outcome is consumed in place of the oldest
DrainOk_Lifo ==
    /\ pc = "bp_poll"
    /\ completed # <<>>
    /\ IsOk(completed[Len(completed)])
    /\ LET res == completed[Len(completed)]
           gas_used == res.outcome.stats.l1_gas_used
           steps_used == res.outcome.stats.cairo_steps_used
       IN  /\ metrics' =
                 [l1_gas_processed_total |-> metrics.l1_gas_processed_total + gas_used,
                  cairo_steps_processed_total |->
                      metrics.cairo_steps_processed_total + steps_used]
           /\ processedLog' = Append(processedLog, res)
           /\ drainRun' = Append(drainRun, res)
    /\ completed' = SubSeq(completed, 1, Len(completed) - 1)
    /\ unanswered' = IF unanswered > 0 THEN unanswered - 1 ELSE 0
    /\ lastBp' = "item"
    /\ polledEmitted' = Len(emittedLog)
    /\ pc' = "bp_poll"
    /\ UNCHANGED <<has_pending_txs, rxDone, pool_txs, wakeVars, poolVars, chanVars,
                   queued, bpEnded, takenLog, enqLog, emittedLog, sinceTake, startup,
                   turnStartEmitted, turnStartBuffered, minerPollClosed, turnQueued,
                   minerPolls, takes, drained, lateNotify>>

\* seeded fault: if let in place of while let, one outcome per run of the loop
DrainOk_Once ==
    /\ pc = "bp_poll"
    /\ completed # <<>>
    /\ IsOk(Head(completed))
    /\ LET res == Head(completed)
           gas_used == res.outcome.stats.l1_gas_used
           steps_used == res.outcome.stats.cairo_steps_used
       IN  /\ metrics' =
                 [l1_gas_processed_total |-> metrics.l1_gas_processed_total + gas_used,
                  cairo_steps_processed_total |->
                      metrics.cairo_steps_processed_total + steps_used]
           /\ processedLog' = Append(processedLog, res)
           /\ drainRun' = Append(drainRun, res)
    /\ completed' = Tail(completed)
    /\ unanswered' = IF unanswered > 0 THEN unanswered - 1 ELSE 0
    /\ lastBp' = "item"
    /\ polledEmitted' = Len(emittedLog)
    /\ pc' = "rx_poll"
    /\ UNCHANGED <<has_pending_txs, rxDone, pool_txs, wakeVars, poolVars, chanVars,
                   queued, bpEnded, takenLog, enqLog, emittedLog, sinceTake, startup,
                   turnStartEmitted, turnStartBuffered, minerPollClosed, turnQueued,
                   minerPolls, takes, drained, lateNotify>>

\* seeded fault: gas and steps are added to each other's counter
DrainOk_Swapped ==
    /\ pc = "bp_poll"
    /\ completed # <<>>
    /\ IsOk(Head(completed))
    /\ LET res == Head(completed)
           gas_used == res.outcome.stats.cairo_steps_used
           steps_used == res.outcome.stats.l1_gas_used
       IN  /\ metrics' =
                 [l1_gas_processed_total |-> metrics.l1_gas_processed_total + gas_used,
                  cairo_steps_processed_total |->
                      metrics.cairo_steps_processed_total + steps_used]
           /\ processedLog' = Append(processedLog, res)
           /\ drainRun' = Append(drainRun, res)
    /\ completed' = Tail(completed)
    /\ unanswered' = IF unanswered > 0 THEN unanswered - 1 ELSE 0
    /\ lastBp' = "item"
    /\ polledEmitted' = Len(emittedLog)
    /\ pc' = "bp_poll"
    /\ UNCHANGED <<has_pending_txs, rxDone, pool_txs, wakeVars, poolVars, chanVars,
                   queued, bpEnded, takenLog, enqLog, emittedLog, sinceTake, startup,
                   turnStartEmitted, turnStartBuffered, minerPollClosed, turnQueued,
                   minerPolls, takes, drained, lateNotify>>

\* while let Poll::Ready(Some(res)) = block_producer.poll_next(cx), arm Ok(outcome);
\* the casts `as u64` keep the value of every statistic below 2^64, which all the
\* statistics of StatsOf are
DrainOk ==
    /\ pc = "bp_poll"
    /\ completed # <<>>
    /\ IsOk(Head(completed))
    /\ LET res == Head(completed)
           gas_used == res.outcome.stats.l1_gas_used
           steps_used == res.outcome.stats.cairo_steps_used
       IN  /\ metrics' =
                 [l1_gas_processed_total |-> metrics.l1_gas_processed_total + gas_used,
                  cairo_steps_processed_total |->
                      metrics.cairo_steps_processed_total + steps_used]
           /\ processedLog' = Append(processedLog, res)
           /\ drainRun' = Append(drainRun, res)
    /\ completed' = Tail(completed)
    /\ unanswered' = IF unanswered > 0 THEN unanswered - 1 ELSE 0
    /\ lastBp' = "item"
    /\ polledEmitted' = Len(emittedLog)
    /\ pc' = "bp_poll"
    /\ UNCHANGED <<has_pending_txs, rxDone, pool_txs, wakeVars, poolVars, chanVars,
                   queued, bpEnded, takenLog, enqLog, emittedLog, sinceTake, startup,
                   turnStartEmitted, turnStartBuffered, minerPollClosed, turnQueued,
                   minerPolls, takes, drained, lateNotify>>

\* seeded fault: a failed attempt is counted in the gas total
DrainErr_Counted ==
    /\ pc = "bp_poll"
    /\ completed # <<>>
    /\ ~IsOk(Head(completed))
    /\ processedLog' = Append(processedLog, Head(completed))
    /\ drainRun' = Append(drainRun, Head(completed))
    /\ metrics' = [metrics EXCEPT !.l1_gas_processed_total = @ + 1]
    /\ completed' = Tail(completed)
    /\ unanswered' = IF unanswered > 0 THEN unanswered - 1 ELSE 0
    /\ lastBp' = "item"
    /\ polledEmitted' = Len(emittedLog)
    /\ pc' = "bp_poll"
    /\ UNCHANGED <<has_pending_txs, rxDone, pool_txs, wakeVars, poolVars, chanVars,
                   queued, bpEnded, takenLog, enqLog, emittedLog, sinceTake, startup,
                   turnStartEmitted, turnStartBuffered, minerPollClosed, turnQueued,
                   minerPolls, takes, drained, lateNotify>>

\* seeded fault: a failure ends the drain loop
DrainErr_Break ==
    /\ pc = "bp_poll"
    /\ completed # <<>>
    /\ ~IsOk(Head(completed))
    /\ processedLog' = Append(processedLog, Head(completed))
    /\ drainRun' = Append(drainRun, Head(completed))
    /\ completed' = Tail(completed)
    /\ unanswered' = IF unanswered > 0 THEN unanswered - 1 ELSE 0
    /\ lastBp' = "item"
    /\ polledEmitted' = Len(emittedLog)
    /\ pc' = "rx_poll"
    /\ UNCHANGED <<has_pending_txs, rxDone, pool_txs, metrics, wakeVars, poolVars,
                   chanVars, queued, bpEnded, takenLog, enqLog, emittedLog, sinceTake,
                   startup, turnStartEmitted, turnStartBuffered, minerPollClosed,
                   turnQueued, minerPolls, takes, drained, lateNotify>>

\* seeded fault: a failure ends the turn
DrainErr_Fatal ==
    /\ pc = "bp_poll"
    /\ completed # <<>>
    /\ ~IsOk(Head(completed))
    /\ processedLog' = Append(processedLog, Head(completed))
    /\ drainRun' = Append(drainRun, Head(completed))
    /\ completed' = Tail(completed)
    /\ unanswered' = IF unanswered > 0 THEN unanswered - 1 ELSE 0
    /\ lastBp' = "item"
    /\ polledEmitted' = Len(emittedLog)
    /\ pc' = "idle"
    /\ UNCHANGED <<has_pending_txs, rxDone, pool_txs, metrics, wakeVars, poolVars,
                   chanVars, queued, bpEnded, takenLog, enqLog, emittedLog, sinceTake,
                   startup, turnStartEmitted, turnStartBuffered, minerPollClosed,
                   turnQueued, minerPolls, takes, drained, lateNotify>>

\* while let Poll::Ready(Some(res)) = block_producer.poll_next(cx), arm Err(error)
DrainErr ==
    /\ pc = "bp_poll"
    /\ completed # <<>>
    /\ ~IsOk(Head(completed))
    /\ processedLog' = Append(processedLog, Head(completed))
    /\ drainRun' = Append(drainRun, Head(completed))
    /\ completed' = Tail(completed)
    /\ unanswered' = IF unanswered > 0 THEN unanswered - 1 ELSE 0
    /\ lastBp' = "item"
    /\ polledEmitted' = Len(emittedLog)
    /\ pc' = "bp_poll"
    /\ UNCHANGED <<has_pending_txs, rxDone, pool_txs, metrics, wakeVars, poolVars,
                   chanVars, queued, bpEnded, takenLog, enqLog, emittedLog, sinceTake,
                   startup, turnStartEmitted, turnStartBuffered, minerPollClosed,
                   turnQueued, minerPolls, takes, drained, lateNotify>>

\* block_producer.poll_next(cx) has nothing immediately available: the while
\* loop ends, the producer keeps the waker, and the task polls the miner
DrainPending ==
    /\ pc = "bp_poll"
    /\ completed = <<>>
    /\ ~bpEnded
    /\ bpWaker' = TRUE
    /\ lastBp' = "pending"
    /\ polledEmitted' = Len(emittedLog)
    /\ minerPollClosed' = closed
    /\ minerPolls' = minerPolls + 1
    /\ drained' = 0
    /\ drainRun' = <<>>
    /\ pc' = "rx_poll"
    /\ UNCHANGED <<has_pending_txs, rxDone, pool_txs, metrics, woken, rxWaker,
                   poolVars, chanVars, bpVars, logVars, sinceTake, unanswered, startup,
                   turnStartEmitted, turnStartBuffered, turnQueued, takes, lateNotify>>

\* block_producer.poll_next(cx) is Ready(None): the pattern of the while let does
\* not match, the loop ends as it does on Pending and the task polls the miner
DrainNone ==
    /\ pc = "bp_poll"
    /\ completed = <<>>
    /\ bpEnded
    /\ lastBp' = "pending"
    /\ polledEmitted' = Len(emittedLog)
    /\ minerPollClosed' = closed
    /\ minerPolls' = minerPolls + 1
    /\ drained' = 0
    /\ drainRun' = <<>>
    /\ pc' = "rx_poll"
    /\ UNCHANGED <<has_pending_txs, rxDone, pool_txs, metrics, wakeVars, poolVars,
                   chanVars, bpVars, logVars, sinceTake, unanswered, startup,
                   turnStartEmitted, turnStartBuffered, turnQueued, takes, lateNotify>>

\* seeded fault: the task breaks out of its loop after queueing, one miner poll per turn
Queue_Break ==
    /\ pc = "queue"
    /\ LET executables == SeqMap(IntoExecutable, pool_txs)
       IN  /\ queued' = Append(queued, executables)
           /\ enqLog' = enqLog \o executables
    /\ pool_txs' = <<>>
    /\ unanswered' = unanswered + 1
    /\ EndTurn
    /\ UNCHANGED <<has_pending_txs, rxDone, metrics, wakeVars, poolVars, chanVars,
                   completed, bpEnded, takenLog, emittedLog, processedLog, sinceTake>>

\* seeded fault: the batch is handed over in reverse order
Queue_Reversed ==
    /\ pc = "queue"
    /\ LET executables == Reverse(SeqMap(IntoExecutable, pool_txs))
       IN  /\ queued' = Append(queued, executables)
           /\ enqLog' = enqLog \o executables
    /\ pool_txs' = <<>>
    /\ unanswered' = unanswered + 1
    /\ turnQueued' = turnQueued + 1
    /\ pc' = "bp_poll"
    /\ UNCHANGED <<has_pending_txs, rxDone, metrics, wakeVars, poolVars, chanVars,
                   completed, bpEnded, takenLog, emittedLog, processedLog, sinceTake,
                   startup, lastBp, drainRun, turnStartEmitted, turnStartBuffered,
                   polledEmitted, minerPollClosed, minerPolls, takes, drained,
                   lateNotify>>

\* seeded fault: the task returns to the scheduler right after queueing the batch
Queue_Yield ==
    /\ pc = "queue"
    /\ LET executables == SeqMap(IntoExecutable, pool_txs)
       IN  /\ queued' = Append(queued, executables)
           /\ enqLog' = enqLog \o executables
    /\ pool_txs' = <<>>
    /\ unanswered' = unanswered + 1
    /\ turnQueued' = turnQueued + 1
    /\ pc' = "idle"
    /\ UNCHANGED <<has_pending_txs, rxDone, metrics, wakeVars, poolVars, chanVars,
                   completed, bpEnded, takenLog, emittedLog, processedLog, sinceTake,
                   startup, lastBp, drainRun, turnStartEmitted, turnStartBuffered,
                   polledEmitted, minerPollClosed, minerPolls, takes, drained,
                   lateNotify>>

\* this.block_producer.queue(executables), then back to the top of the loop
Queue ==
    /\ pc = "queue"
    /\ LET executables == SeqMap(IntoExecutable, pool_txs)
       IN  /\ queued' = Append(queued, executables)
           /\ enqLog' = enqLog \o executables
    /\ pool_txs' = <<>>
    /\ unanswered' = unanswered + 1
    /\ turnQueued' = turnQueued + 1
    /\ pc' = "bp_poll"
    /\ UNCHANGED <<has_pending_txs, rxDone, metrics, wakeVars, poolVars, chanVars,
                   completed, bpEnded, takenLog, emittedLog, processedLog, sinceTake,
                   startup, lastBp, drainRun, turnStartEmitted, turnStartBuffered,
                   polledEmitted, minerPollClosed, minerPolls, takes, drained,
                   lateNotify>>

(* ------------------------ TransactionMiner::poll ----------------------- *)

\* seeded fault: if let in place of while let, one notification per miner poll
RxReady_One ==
    /\ pc = "rx_poll"
    /\ ~rxDone
    /\ rx # <<>>
    /\ rx' = Tail(rx)
    /\ has_pending_txs' = "SomeTrue"
    /\ drained' = drained + 1
    /\ sinceTake' = IF sinceTake = "no_batch_yet" THEN sinceTake ELSE "notified"
    /\ pc' = "check"
    /\ UNCHANGED <<rxDone, pool_txs, metrics, wakeVars, poolVars, closed, bpVars,
                   logVars, unanswered, startup, lastBp, drainRun, turnStartEmitted,
                   turnStartBuffered, polledEmitted, minerPollClosed, turnQueued,
                   minerPolls, takes, lateNotify>>

\* seeded fault: a drained notification does not set has_pending_txs
RxReady_NoFlag ==
    /\ pc = "rx_poll"
    /\ ~rxDone
    /\ rx # <<>>
    /\ rx' = Tail(rx)
    /\ has_pending_txs' = has_pending_txs
    /\ drained' = drained + 1
    /\ sinceTake' = IF sinceTake = "no_batch_yet" THEN sinceTake ELSE "notified"
    /\ pc' = "rx_poll"
    /\ UNCHANGED <<rxDone, pool_txs, metrics, wakeVars, poolVars, closed, bpVars,
                   logVars, unanswered, startup, lastBp, drainRun, turnStartEmitted,
                   turnStartBuffered, polledEmitted, minerPollClosed, turnQueued,
                   minerPolls, takes, lateNotify>>

\* while let Poll::Ready(Some(_)) = rx.poll_next(cx): one notification drained
RxReady ==
    /\ pc = "rx_poll"
    /\ ~rxDone
    /\ rx # <<>>
    /\ rx' = Tail(rx)
    /\ has_pending_txs' = "SomeTrue"
    /\ drained' = drained + 1
    /\ sinceTake' = IF sinceTake = "no_batch_yet" THEN sinceTake ELSE "notified"
    /\ pc' = "rx_poll"
    /\ UNCHANGED <<rxDone, pool_txs, metrics, wakeVars, poolVars, closed, bpVars,
                   logVars, unanswered, startup, lastBp, drainRun, turnStartEmitted,
                   turnStartBuffered, polledEmitted, minerPollClosed, turnQueued,
                   minerPolls, takes, lateNotify>>

\* rx.poll_next(cx) is Pending: the channel is open and empty, it keeps the waker
RxPending ==
    /\ pc = "rx_poll"
    /\ ~rxDone
    /\ rx = <<>>
    /\ ~closed
    /\ rxWaker' = TRUE
    /\ pc' = "check"
    /\ UNCHANGED <<has_pending_txs, rxDone, pool_txs, metrics, woken, bpWaker,
                   poolVars, chanVars, bpVars, logVars, turnVars>>

\* seeded fault: the task completes once the notification channel has ended
RxNone_Complete ==
    /\ pc = "rx_poll"
    /\ rxDone \/ (rx = <<>> /\ closed)
    /\ rxDone' = TRUE
    /\ pc' = "done"
    /\ UNCHANGED <<has_pending_txs, pool_txs, metrics, wakeVars, poolVars, chanVars,
                   bpVars, logVars, turnVars>>

\* rx.poll_next(cx) is Ready(None): the channel is closed and drained (Fuse
\* remembers it and answers None from then on without polling the receiver)
RxNone ==
    /\ pc = "rx_poll"
    /\ rxDone \/ (rx = <<>> /\ closed)
    /\ rxDone' = TRUE
    /\ pc' = "check"
    /\ UNCHANGED <<has_pending_txs, pool_txs, metrics, wakeVars, poolVars, chanVars,
                   bpVars, logVars, turnVars>>

\* seeded fault: None is treated as Some(false), the pool is queried only once notified
CheckKnownEmpty_OrUnknown ==
    /\ pc = "check"
    /\ has_pending_txs # "SomeTrue"
    /\ EndTurn
    /\ UNCHANGED <<has_pending_txs, rxDone, pool_txs, metrics, wakeVars, poolVars,
                   chanVars, bpVars, logVars, sinceTake, unanswered>>

\* seeded fault: returning in the known-empty state resets has_pending_txs to None
CheckKnownEmpty_Forget ==
    /\ pc = "check"
    /\ has_pending_txs = "SomeFalse"
    /\ has_pending_txs' = "None"
    /\ EndTurn
    /\ UNCHANGED <<rxDone, pool_txs, metrics, wakeVars, poolVars, chanVars, bpVars,
                   logVars, sinceTake, unanswered>>

\* if self.has_pending_txs == Some(false) { return Poll::Pending }
\* the task takes the else branch, breaks out of its loop and returns Pending
CheckKnownEmpty ==
    /\ pc = "check"
    /\ has_pending_txs = "SomeFalse"
    /\ EndTurn
    /\ UNCHANGED <<has_pending_txs, rxDone, pool_txs, metrics, wakeVars, poolVars,
                   chanVars, bpVars, logVars, sinceTake, unanswered>>

\* seeded fault: the known-empty test is dropped, the pool is queried in every state
CheckQuery_Unguarded ==
    /\ pc = "check"
    /\ takes' = takes + 1
    /\ drained' = 0
    /\ pc' = "take"
    /\ UNCHANGED <<has_pending_txs, rxDone, pool_txs, metrics, wakeVars, poolVars,
                   chanVars, bpVars, logVars, sinceTake, unanswered, startup, lastBp,
                   drainRun, turnStartEmitted, turnStartBuffered, polledEmitted,
                   minerPollClosed, turnQueued, minerPolls, lateNotify>>

\* has_pending_txs is None or Some(true): go on to query the pool
CheckQuery ==
    /\ pc = "check"
    /\ has_pending_txs # "SomeFalse"
    /\ takes' = takes + 1
    /\ drained' = 0
    /\ pc' = "take"
    /\ UNCHANGED <<has_pending_txs, rxDone, pool_txs, metrics, wakeVars, poolVars,
                   chanVars, bpVars, logVars, sinceTake, unanswered, startup, lastBp,
                   drainRun, turnStartEmitted, turnStartBuffered, polledEmitted,
                   minerPollClosed, turnQueued, minerPolls, lateNotify>>

\* seeded fault: an empty take sets has_pending_txs to Some(false)
TakeEmpty_Settles ==
    /\ pc = "take"
    /\ pool = <<>>
    /\ has_pending_txs' = "SomeFalse"
    /\ EndTurn
    /\ UNCHANGED <<rxDone, pool_txs, metrics, wakeVars, poolVars, chanVars, bpVars,
                   logVars, sinceTake, unanswered>>

\* seeded fault: an empty take is reported as a ready, empty batch
TakeEmpty_Ready ==
    /\ pc = "take"
    /\ pool = <<>>
    /\ pool_txs' = <<>>
    /\ pc' = "queue"
    /\ UNCHANGED <<has_pending_txs, rxDone, metrics, wakeVars, poolVars, chanVars,
                   bpVars, logVars, turnVars>>

\* pool.take_transactions() returned nothing: the miner returns Poll::Pending
\* with has_pending_txs untouched, the task breaks and returns Pending
TakeEmpty ==
    /\ pc = "take"
    /\ pool = <<>>
    /\ EndTurn
    /\ UNCHANGED <<has_pending_txs, rxDone, pool_txs, metrics, wakeVars, poolVars,
                   chanVars, bpVars, logVars, sinceTake, unanswered>>

\* seeded fault: a non-empty take leaves has_pending_txs at Some(true)
TakeReady_KnownPending ==
    /\ pc = "take"
    /\ pool # <<>>
    /\ LET transactions == SeqMap(TxOf, pool)
       IN  /\ pool_txs' = transactions
           /\ takenLog' = takenLog \o SeqMap(IntoExecutable, transactions)
    /\ pool' = <<>>
    /\ has_pending_txs' = "SomeTrue"
    /\ sinceTake' = "no_notification"
    /\ minerPollClosed' = FALSE
    /\ pc' = "queue"
    /\ UNCHANGED <<rxDone, metrics, wakeVars, unsent, nAdded, chanVars, bpVars, enqLog,
                   emittedLog, processedLog, unanswered, startup, lastBp, drainRun,
                   turnStartEmitted, turnStartBuffered, polledEmitted, turnQueued,
                   minerPolls, takes, drained, lateNotify>>

\* seeded fault: only the oldest transaction of the pool is handed over
TakeReady_Head ==
    /\ pc = "take"
    /\ pool # <<>>
    /\ LET transactions == <<TxOf(Head(pool))>>
       IN  /\ pool_txs' = transactions
           /\ takenLog' = takenLog \o SeqMap(IntoExecutable, transactions)
    /\ pool' = Tail(pool)
    /\ has_pending_txs' = "SomeFalse"
    /\ sinceTake' = "no_notification"
    /\ minerPollClosed' = FALSE
    /\ pc' = "queue"
    /\ UNCHANGED <<rxDone, metrics, wakeVars, unsent, nAdded, chanVars, bpVars, enqLog,
                   emittedLog, processedLog, unanswered, startup, lastBp, drainRun,
                   turnStartEmitted, turnStartBuffered, polledEmitted, turnQueued,
                   minerPolls, takes, drained, lateNotify>>

\* seeded fault: a non-empty take does not set has_pending_txs to Some(false)
TakeReady_NoFlag ==
    /\ pc = "take"
    /\ pool # <<>>
    /\ LET transactions == SeqMap(TxOf, pool)
       IN  /\ pool_txs' = transactions
           /\ takenLog' = takenLog \o SeqMap(IntoExecutable, transactions)
    /\ pool' = <<>>
    /\ has_pending_txs' = has_pending_txs
    /\ sinceTake' = "no_notification"
    /\ minerPollClosed' = FALSE
    /\ pc' = "queue"
    /\ UNCHANGED <<rxDone, metrics, wakeVars, unsent, nAdded, chanVars, bpVars, enqLog,
                   emittedLog, processedLog, unanswered, startup, lastBp, drainRun,
                   turnStartEmitted, turnStartBuffered, polledEmitted, turnQueued,
                   minerPolls, takes, drained, lateNotify>>

\* pool.take_transactions() returned a batch: has_pending_txs = Some(false),
\* return Poll::Ready(transactions)
TakeReady ==
    /\ pc = "take"
    /\ pool # <<>>
    /\ LET transactions == SeqMap(TxOf, pool)
       IN  /\ pool_txs' = transactions
           /\ takenLog' = takenLog \o SeqMap(IntoExecutable, transactions)
    /\ pool' = <<>>
    /\ has_pending_txs' = "SomeFalse"
    /\ sinceTake' = "no_notification"
    /\ minerPollClosed' = FALSE
    /\ pc' = "queue"
    /\ UNCHANGED <<rxDone, metrics, wakeVars, unsent, nAdded, chanVars, bpVars, enqLog,
                   emittedLog, processedLog, unanswered, startup, lastBp, drainRun,
                   turnStartEmitted, turnStartBuffered, polledEmitted, turnQueued,
                   minerPolls, takes, drained, lateNotify>>

(* --------------------------- TransactionPool --------------------------- *)

\* a transaction becomes ready in the pool; its notification is still to be sent
AddTx ==
    /\ nAdded < MaxAdds
    /\ nAdded' = nAdded + 1
    /\ pool' = Append(pool, [id |-> nAdded + 1, tx |-> [hash |-> HashOf(nAdded + 1)]])
    /\ unsent' = Append(unsent, [id |-> nAdded + 1, hash |-> HashOf(nAdded + 1)])
    /\ UNCHANGED <<taskVars, wakeVars, chanVars, bpVars, logVars, turnVars>>

\* the pool sends the hash of a ready transaction on the channel, which wakes
\* the receiving task if it holds its waker
Notify ==
    /\ unsent # <<>>
    /\ ~closed
    /\ Len(rx) < RxCapacity
    /\ rx' = Append(rx, Head(unsent).hash)
    /\ unsent' = Tail(unsent)
    /\ woken' = (woken \/ rxWaker)
    /\ rxWaker' = FALSE
    /\ startup' = FALSE
    /\ lateNotify' =
           IF minerPolls = 0 \/ (minerPolls = 1 /\ pc = "rx_poll") THEN lateNotify
           ELSE IF minerPolls = 1 /\ pc \in {"check", "take"} THEN "in_poll"
           ELSE "after_poll"
    /\ UNCHANGED <<taskVars, bpWaker, pool, nAdded, closed, bpVars, logVars, sinceTake,
                   unanswered, lastBp, drainRun, turnStartEmitted, turnStartBuffered,
                   polledEmitted, minerPollClosed, turnQueued, minerPolls, takes,
                   drained>>

\* another holder of the pool removes a ready transaction (consumed elsewhere,
\* expired or invalidated)
Evict(i) ==
    /\ i \in 1..Len(pool)
    /\ pool' = RemoveAt(pool, i)
    /\ UNCHANGED <<taskVars, wakeVars, unsent, nAdded, chanVars, bpVars, logVars,
                   turnVars>>

\* pool shutdown: every sender is dropped, unsent notifications stay unsent;
\* the channel wakes the receiving task if it holds its waker
Close ==
    /\ ~closed
    /\ closed' = TRUE
    /\ woken' = (woken \/ rxWaker)
    /\ rxWaker' = FALSE
    /\ UNCHANGED <<taskVars, bpWaker, poolVars, rx, bpVars, logVars, turnVars>>

(* ----------------------------- BlockProducer --------------------------- *)

Outcomes(n) ==
    { [kind |-> "Ok", outcome |-> [block_number |-> n, stats |-> StatsOf(n)]],
      [kind |-> "Err", error |-> "block assembly failed"] }

\* the producer finishes the block-assembly attempt for the oldest queued batch
\* and emits its outcome on the completion stream, waking the task if it holds
\* its waker
Complete(res) ==
    /\ queued # <<>>
    /\ ~bpEnded
    /\ queued' = Tail(queued)
    /\ completed' = Append(completed, res)
    /\ emittedLog' = Append(emittedLog, res)
    /\ woken' = (woken \/ bpWaker)
    /\ bpWaker' = FALSE
    /\ UNCHANGED <<taskVars, rxWaker, poolVars, chanVars, bpEnded, takenLog, enqLog,
                   processedLog, turnVars>>

\* orderly node shutdown stops the producer last: its completion stream ends
\* between two polls of the task, after the pool has closed the channel and the
\* miner has seen the closure, once every queued batch is answered and every
\* outcome handed out; from then on every poll answers None, and the producer
\* wakes the task if it holds its waker
EndStream ==
    /\ ~bpEnded
    /\ closed
    /\ rxDone
    /\ pc = "idle"
    /\ queued = <<>>
    /\ completed = <<>>
    /\ bpEnded' = TRUE
    /\ woken' = (woken \/ bpWaker)
    /\ bpWaker' = FALSE
    /\ UNCHANGED <<taskVars, rxWaker, poolVars, chanVars, queued, completed, logVars,
                   turnVars>>

(* ------------------------------- Next ---------------------------------- *)

\* one step of the task's own code, the scheduler's re-poll included
TaskStep ==
    \/ TurnStart
    \/ DrainOk
    \/ DrainErr
    \/ DrainPending
    \/ DrainNone
    \/ Queue
    \/ RxReady
    \/ RxPending
    \/ RxNone
    \/ CheckKnownEmpty
    \/ CheckQuery
    \/ TakeEmpty
    \/ TakeReady

Next ==
    \/ TaskStep
    \/ AddTx
    \/ Notify
    \/ \E i \in 1..Len(pool) : Evict(i)
    \/ Close
    \/ \E res \in Outcomes(CountOk(emittedLog) + 1) : Complete(res)
    \/ EndStream

Spec == Init /\ [][Next]_vars

\* the scheduler polls a woken task and a polled task runs until it returns;
\* nothing is assumed of the pool, the channel's senders or the producer
LiveSpec == Init /\ [][Next]_vars /\ WF_vars(TaskStep)

TypeOK ==
    /\ pc \in {"idle", "bp_poll", "rx_poll", "check", "take", "queue"}
    /\ has_pending_txs \in {"None", "SomeTrue", "SomeFalse"}
    /\ Len(rx) =< RxCapacity
    /\ nAdded =< MaxId

(* ------------------------------- claims -------------------------------- *)

\* C1: once a miner poll has taken a non-empty batch from the pool, the miner
\* reaches its next call of the pool's take operation only after it has
\* drained at least one new notification from the channel.
C1_NoTakeWithoutNotification ==
    pc = "take" => sinceTake # "no_notification"

\* C1 witness: the miner is about to query the pool again after a non-empty
\* take, a new notification having been drained in between.
C1_Witness ==
    pc = "take" /\ sinceTake = "notified" /\ takenLog # <<>>

\* C2: what the task has enqueued into the BlockProducer is, transaction for
\* transaction and in the same order, what the pool's non-empty takes
\* returned; the only transactions taken and not yet enqueued are those of
\* the batch the miner has just handed to the task.
C2_EnqueuedEqualsTaken ==
    takenLog = enqLog \o SeqMap(IntoExecutable, pool_txs)
        /\ (pc # "queue" => pool_txs = <<>>)

\* C2 witness: a batch of two different transactions has been enqueued.
C2_Witness ==
    /\ pc = "idle"
    /\ \E i \in 1..Len(queued) :
          Len(queued[i]) >= 2 /\ queued[i][1].hash # queued[i][2].hash
    /\ enqLog = takenLog

\* C3: no wake-up is lost. Every transaction that is ready in the pool with
\* no notification left to send for it (it was sent, or the transaction was
\* resident at startup) eventually leaves the pool with everything the miner
\* took enqueued into the BlockProducer (it was taken, unless another holder
\* of the pool removed it first), and every outcome the BlockProducer emitted
\* is eventually drained by the task.
C3_NoLostWakeup ==
    /\ \A n \in 1..MaxId :
          (n \in Ids(pool) /\ n \notin Ids(unsent)) ~>
              (n \notin Ids(pool) /\ enqLog = takenLog)
    /\ \A k \in 1..MaxId :
          (Len(emittedLog) >= k) ~> (Len(processedLog) >= k)

\* C3 witness: the task has queued a second batch in one turn, which takes a
\* notification sent during the turn, after the miner had drained the channel
\* and returned the first batch; nothing is left in the pool or the channel
\* and every outcome emitted so far has been drained.
C3_Witness ==
    /\ turnQueued >= 2
    /\ pc = "bp_poll"
    /\ pool = <<>>
    /\ unsent = <<>>
    /\ rx = <<>>
    /\ enqLog = takenLog
    /\ emittedLog # <<>>
    /\ processedLog = emittedLog

\* C4: at the step where the task returns not-ready, every outcome the
\* completion stream held when the turn began has been consumed and its
\* statistics are in the metrics.
C4_DrainExhaustive ==
    [][(pc # "idle" /\ pc' = "idle") =>
          /\ Len(processedLog) >= turnStartEmitted
          /\ metrics.l1_gas_processed_total
                >= SumGas(SubSeq(emittedLog, 1, turnStartEmitted))
          /\ metrics.cairo_steps_processed_total
                >= SumSteps(SubSeq(emittedLog, 1, turnStartEmitted))]_vars

\* C4 witness: the task is about to return not-ready in a turn that began
\* with an outcome buffered and in which it also consumed the outcome of a
\* batch it enqueued in the same turn.
C4_Witness ==
    /\ pc = "check"
    /\ has_pending_txs = "SomeFalse"
    /\ turnStartBuffered >= 1
    /\ turnQueued >= 1
    /\ Len(processedLog) > turnStartEmitted

\* C5: the cumulative gas and steps counters equal the exact sums of the
\* statistics of the success outcomes drained so far; failures add nothing.
C5_MetricsExactSum ==
    /\ metrics.l1_gas_processed_total = SumGas(processedLog)
    /\ metrics.cairo_steps_processed_total = SumSteps(processedLog)

\* C5 witness: a success and a failure have both been drained.
C5_Witness ==
    /\ CountOk(processedLog) >= 1
    /\ CountOk(processedLog) < Len(processedLog)
    /\ metrics.l1_gas_processed_total > 0

\* C6 as stated: when the task enqueues a batch, the outcome of every batch it
\* enqueued before has been consumed from the completion stream.
C6_OutcomeDrainedBeforeNextEnqueue ==
    pc = "queue" => unanswered = 0

\* C6 amended: when the task enqueues a batch, its most recent poll of the
\* completion stream found nothing available and every outcome emitted up to
\* that poll has been consumed; the outcome of the previous batch may still be
\* outstanding.
C6_StreamPolledDryBeforeEnqueue ==
    pc = "queue" =>
        /\ lastBp = "pending"
        /\ Len(processedLog) >= polledEmitted

\* C6 witness: a second batch is about to be enqueued while the outcome of the
\* first has not been consumed.
C6_Witness ==
    pc = "queue" /\ unanswered >= 1 /\ enqLog # <<>>

\* C7 as stated: a miner poll that begins after the channel was closed never
\* returns a batch.
C7_NeverReadyAfterClose ==
    [][(pc = "take" /\ minerPollClosed) => pc' # "queue"]_vars

\* C7 amended: the miner polls that begin after the channel was closed return
\* at most one batch in total. A batch returned by such a poll leaves the
\* miner known-empty with the end of the channel observed, and from then on
\* that state is final: the pool is never queried and no batch is returned.
C7_AtMostOneBatchAfterClose ==
    [][/\ (pc = "take" /\ minerPollClosed /\ pc' = "queue") =>
              (rxDone' /\ has_pending_txs' = "SomeFalse")
       /\ (rxDone /\ has_pending_txs = "SomeFalse") =>
              (rxDone' /\ has_pending_txs' = "SomeFalse" /\ pc' # "take")]_vars

\* C7 witness: in a poll begun after the closure the miner, known-empty after
\* the batch it returned, is about to report not-ready although the pool holds
\* a transaction.
C7_Witness ==
    /\ pc = "check"
    /\ minerPollClosed
    /\ rxDone
    /\ has_pending_txs = "SomeFalse"
    /\ takenLog # <<>>
    /\ pool # <<>>

\* C8: every batch handed to the BlockProducer's queue operation carries at
\* least one transaction.
C8_NoEmptyBatch ==
    /\ pc = "queue" => pool_txs # <<>>
    /\ \A i \in 1..Len(queued) : queued[i] # <<>>

\* C8 witness: a batch is queued in the BlockProducer.
C8_Witness ==
    queued # <<>> /\ pc = "idle"

\* C9 as stated: at the step where the task returns not-ready no outcome is
\* available in the completion stream.
C9_NoOutcomeAvailableAtYield ==
    [][(pc # "idle" /\ pc' = "idle") => completed' = <<>>]_vars

\* C9 amended: the task returns not-ready exactly when, in the same turn, its
\* most recent poll of the completion stream yielded no item and the miner
\* poll that followed reported not-ready: it yields only out of a miner poll,
\* with every outcome emitted up to that stream poll drained and no batch in
\* hand, and a miner poll ends either in that yield or with a batch to queue.
C9_YieldExactlyWhenNoProgress ==
    [][/\ (pc # "idle" /\ pc' = "idle") =>
              /\ pc \in {"check", "take"}
              /\ lastBp = "pending"
              /\ Len(processedLog) >= polledEmitted
              /\ pool_txs' = <<>>
       /\ (pc \in {"check", "take"} /\ pc' \notin {"check", "take"}) =>
              \/ pc' = "idle" /\ pool_txs' = <<>>
              \/ pc' = "queue" /\ pool_txs' # <<>>]_vars

\* C9 witness: the task is about to yield (stream polled dry, miner
\* known-empty) while an outcome that completed after its last poll of the
\* stream waits in the stream.
C9_Witness ==
    /\ pc = "check"
    /\ has_pending_txs = "SomeFalse"
    /\ lastBp = "pending"
    /\ completed # <<>>
    /\ Len(emittedLog) > polledEmitted

\* C10: draining a failure leaves the metrics, the pool and the producer's
\* queue untouched and keeps the task in the drain loop, with the outcomes
\* buffered behind the failure next in line.
C10_FailureIsSideEffectFree ==
    [][(/\ pc = "bp_poll"
        /\ completed # <<>>
        /\ ~IsOk(Head(completed))
        /\ processedLog' # processedLog)
       => (/\ metrics' = metrics
           /\ queued' = queued
           /\ enqLog' = enqLog
           /\ pool' = pool
           /\ completed' = Tail(completed)
           /\ pc' = "bp_poll")]_vars

\* C10 witness: one run of the drain loop consumed a failure and then the
\* success buffered behind it, whose statistics are the metrics' totals.
C10_Witness ==
    /\ Len(drainRun) = 2
    /\ ~IsOk(drainRun[1])
    /\ IsOk(drainRun[2])
    /\ metrics.l1_gas_processed_total = drainRun[2].outcome.stats.l1_gas_used
    /\ metrics.cairo_steps_processed_total = drainRun[2].outcome.stats.cairo_steps_used

\* C11: the outcomes the task has logged and added to the metrics are, in the
\* same order, the first outcomes the BlockProducer emitted, and the rest of
\* the emitted outcomes are the ones still buffered in the stream: none is
\* skipped and none is processed twice.
C11_ProcessedIsPrefixOfEmitted ==
    /\ IsPrefix(processedLog, emittedLog)
    /\ emittedLog = processedLog \o completed

\* C11 witness: two different outcomes were buffered together, the task has
\* consumed the older one and the newer one is next in the stream.
C11_Witness ==
    /\ Len(drainRun) = 1
    /\ Len(completed) = 1
    /\ drainRun[1] # completed[1]
    /\ processedLog = <<emittedLog[1]>>

\* C12: the task never completes and never surfaces an error. At every moment
\* it is either inside a poll or suspended after a poll that returned Pending,
\* from where the scheduler can poll it again; no state of the pool, of the
\* channel or of the completion stream makes a poll return anything else.
C12_EveryPollReturnsPending ==
    pc \in {"idle", "bp_poll", "rx_poll", "check", "take", "queue"}

\* C12 witness: the task is suspended, with no wake-up pending, after a poll
\* that found the channel closed and the completion stream ended, a failure
\* being among the outcomes it consumed.
C12_Witness ==
    /\ pc = "idle"
    /\ ~woken
    /\ rxDone
    /\ bpEnded
    /\ \E i \in 1..Len(processedLog) : ~IsOk(processedLog[i])

\* C13: has_pending_txs starts as None and changes only by the two
\* assignments of the miner: a step that drains a notification leaves it
\* Some(true) whatever it was, a step in which the pool's take returns a
\* batch leaves it Some(false), and every other step leaves it as it is; so
\* it never returns to None and never becomes Some(false) without a
\* non-empty take.
C13_ReadinessTransitions ==
    /\ has_pending_txs = "None"
    /\ [][/\ (pc = "rx_poll" /\ rx # <<>> /\ rx' = Tail(rx)) =>
                 has_pending_txs' = "SomeTrue"
          /\ (pc = "take" /\ pool_txs' # <<>>) => has_pending_txs' = "SomeFalse"
          /\ has_pending_txs' # has_pending_txs =>
                 \/ /\ pc = "rx_poll"
                    /\ rx # <<>>
                    /\ rx' = Tail(rx)
                    /\ has_pending_txs' = "SomeTrue"
                 \/ /\ pc = "take"
                    /\ pool # <<>>
                    /\ pool_txs' # <<>>
                    /\ has_pending_txs' = "SomeFalse"
          /\ has_pending_txs' = "None" => has_pending_txs = "None"]_vars

\* C13 witness: has_pending_txs is back to Some(true) after having been
\* Some(false): the miner took a batch in an earlier poll and has now drained
\* a notification sent since.
C13_Witness ==
    /\ pc = "check"
    /\ has_pending_txs = "SomeTrue"
    /\ sinceTake = "notified"
    /\ takenLog # <<>>

\* C14: an empty result of the pool's take ends the miner poll as not ready
\* with has_pending_txs as it was, None or Some(true), and nothing queued;
\* has_pending_txs leaves these two values only by a non-empty take, and
\* while it has one of them every miner poll, a notification drained or not,
\* goes on from its test of has_pending_txs to query the pool again.
C14_EmptyTakeKeepsQuerying ==
    [][/\ (pc = "take" /\ pool = <<>> /\ pc' # "take") =>
              /\ pc' = "idle"
              /\ has_pending_txs \in {"None", "SomeTrue"}
              /\ has_pending_txs' = has_pending_txs
              /\ pool_txs' = <<>>
              /\ queued' = queued
       /\ (has_pending_txs \in {"None", "SomeTrue"} /\ has_pending_txs' = "SomeFalse") =>
              (pc = "take" /\ pool # <<>> /\ pc' = "queue")
       /\ (pc = "check" /\ has_pending_txs \in {"None", "SomeTrue"} /\ pc' # "check") =>
              pc' = "take"]_vars

\* C14 witness: the miner queries the pool again in a turn after the first
\* although no notification has ever been sent: every earlier turn ended with
\* an empty take and has_pending_txs is still None.
C14_Witness ==
    /\ pc = "take"
    /\ ~startup
    /\ has_pending_txs = "None"
    /\ rx = <<>>
    /\ unsent = <<>>

\* C15: startup pickup. In the first turn, as long as no notification has been
\* sent, has_pending_txs is None until the miner has taken a batch, and the
\* miner goes from its test of has_pending_txs to the pool's take; a
\* non-empty take hands over every transaction of the pool as one batch,
\* which the task queues in one call before it goes back to the completion
\* stream; when such a turn ends after a batch, exactly one batch was queued,
\* everything taken has been queued, the metrics hold the statistics of the
\* successes among the outcomes emitted up to the last poll of the stream,
\* and has_pending_txs is Some(false).
C15_StartupPickup ==
    /\ [](startup /\ turnQueued = 0 /\ pc # "queue" => has_pending_txs = "None")
    /\ [][startup =>
            /\ (pc = "check" /\ turnQueued = 0 /\ pc' # "check") => pc' = "take"
            /\ (pc = "take" /\ pool # <<>> /\ pc' # "take") =>
                   /\ pool_txs' = SeqMap(TxOf, pool)
                   /\ pool' = <<>>
                   /\ pc' = "queue"
            /\ (pc = "queue" /\ pc' # "queue") =>
                   /\ queued' = Append(queued, SeqMap(IntoExecutable, pool_txs))
                   /\ pc' = "bp_poll"
            /\ (pc # "idle" /\ pc' = "idle" /\ turnQueued >= 1) =>
                   /\ turnQueued = 1
                   /\ has_pending_txs' = "SomeFalse"
                   /\ enqLog' = takenLog'
                   /\ Len(processedLog') >= polledEmitted
                   /\ metrics'.l1_gas_processed_total = SumGas(processedLog')
                   /\ metrics'.cairo_steps_processed_total = SumSteps(processedLog')]_vars

\* C15 witness: the first turn is about to end, no notification ever sent;
\* the miner took the MaxInitPool transactions resident at startup as one
\* batch, the task queued them, the producer completed a block for them and
\* the task added its statistics to the metrics; has_pending_txs is
\* Some(false).
C15_Witness ==
    /\ startup
    /\ pc = "check"
    /\ has_pending_txs = "SomeFalse"
    /\ Len(enqLog) = MaxInitPool
    /\ turnQueued = 1
    /\ processedLog = <<[kind |-> "Ok",
                         outcome |-> [block_number |-> 1, stats |-> StatsOf(1)]]>>
    /\ metrics.l1_gas_processed_total = StatsOf(1).l1_gas_used
    /\ metrics.cairo_steps_processed_total = StatsOf(1).cairo_steps_used

\* C16: notification coalescing. A miner poll leaves its drain loop only with
\* the channel empty; the first notification it drains sets has_pending_txs
\* to Some(true) and every further one changes nothing but the channel, so
\* after the loop has_pending_txs is Some(true) whether one or many were
\* drained; the pool is then queried, at most once per miner poll, and the
\* result is decided by the pool's contents alone: not ready if the pool is
\* empty, the whole pool as one batch otherwise.
C16_NotificationsCoalesce ==
    /\ [](/\ takes =< minerPolls
          /\ (drained >= 1 /\ pc \in {"rx_poll", "check", "take"}) =>
                 has_pending_txs = "SomeTrue")
    /\ [][/\ (pc = "rx_poll" /\ pc' # "rx_poll") => (rx = <<>> /\ pc' = "check")
          /\ (pc = "rx_poll" /\ drained >= 1 /\ drained' = drained + 1) =>
                 /\ has_pending_txs' = has_pending_txs
                 /\ pc' = pc
                 /\ takes' = takes
                 /\ UNCHANGED <<pool, pool_txs, queued, metrics>>
          /\ (pc = "check" /\ drained >= 1 /\ pc' # "check") =>
                 (pc' = "take" /\ takes' = takes + 1)
          /\ (pc = "take" /\ pc' # "take") =>
                 IF pool = <<>>
                 THEN pc' = "idle" /\ pool_txs' = <<>>
                 ELSE pc' = "queue" /\ pool_txs' = SeqMap(TxOf, pool)]_vars

\* C16 witness: one miner poll has drained two notifications and is about to
\* test has_pending_txs, which is Some(true); the pool has not been queried
\* by this poll yet.
C16_Witness ==
    /\ pc = "check"
    /\ drained >= 2
    /\ rx = <<>>
    /\ has_pending_txs = "SomeTrue"
    /\ takes < minerPolls

\* C17 as stated: the miner is polled exactly once in a turn and the pool's
\* take is called at most once in a turn.
C17_MinerPolledOncePerTurn ==
    /\ minerPolls =< 1
    /\ takes =< 1

\* C17 amended: the miner is polled once at the start of every run of the
\* task's loop, so once more after every batch it returns: while the task is
\* draining the stream the miner polls of the turn are as many as the batches
\* queued in it, from a miner poll until its batch is queued they are one
\* more, and the turn ends only out of a miner poll that reported not ready.
\* The take is called at most once per miner poll, and a second time in a
\* turn only after a notification drained since the batch before.
C17_MinerPolledOncePerLoopRun ==
    /\ [](/\ pc = "idle" => (minerPolls = 0 /\ takes = 0)
          /\ pc = "bp_poll" => minerPolls = turnQueued
          /\ pc \in {"rx_poll", "check", "take", "queue"} => minerPolls = turnQueued + 1
          /\ takes =< minerPolls
          /\ (pc = "take" /\ takes >= 2) => sinceTake = "notified")
    /\ [][(pc # "idle" /\ pc' = "idle") =>
              (pc \in {"check", "take"} /\ minerPolls = turnQueued + 1)]_vars

\* C17 witness: a turn is about to end after three miner polls, two of which
\* took a batch from the pool.
C17_Witness ==
    /\ pc = "check"
    /\ has_pending_txs = "SomeFalse"
    /\ minerPolls = 3
    /\ takes = 2
    /\ turnQueued = 2

\* C18: no step lowers a metrics counter, and a step that changes one is the
\* task consuming a success from the completion stream inside its turn, which
\* adds that outcome's statistics; miner polls, takes, enqueues, failures and
\* every step of the pool, the channel and the producer leave both counters
\* as they are.
C18_MetricsOnlyGrowOnSuccess ==
    [][/\ metrics'.l1_gas_processed_total >= metrics.l1_gas_processed_total
       /\ metrics'.cairo_steps_processed_total >= metrics.cairo_steps_processed_total
       /\ metrics' # metrics =>
              /\ pc = "bp_poll"
              /\ completed # <<>>
              /\ IsOk(Head(completed))
              /\ processedLog' = Append(processedLog, Head(completed))
              /\ metrics'.l1_gas_processed_total =
                     metrics.l1_gas_processed_total
                         + Head(completed).outcome.stats.l1_gas_used
              /\ metrics'.cairo_steps_processed_total =
                     metrics.cairo_steps_processed_total
                         + Head(completed).outcome.stats.cairo_steps_used]_vars

\* C18 witness: the counters have grown twice, by two successes, and stayed
\* put through the takes and enqueues in between; the second success was
\* consumed in the current turn.
C18_Witness ==
    /\ CountOk(processedLog) = 2
    /\ lastBp = "item"
    /\ metrics.l1_gas_processed_total
           = StatsOf(1).l1_gas_used + StatsOf(2).l1_gas_used
    /\ metrics.cairo_steps_processed_total
           = StatsOf(1).cairo_steps_used + StatsOf(2).cairo_steps_used

\* C19: no transaction is stranded behind Some(false). While the task is
\* suspended with has_pending_txs = Some(false), every transaction in the
\* pool has a notification of its own that is still to be sent or is waiting
\* undrained in the channel; if one is waiting in the channel the task has
\* been woken, and otherwise the channel holds the task's waker for the send
\* to come, unless the pool's senders are gone.
C19_NoStrandedTransaction ==
    (pc = "idle" /\ has_pending_txs = "SomeFalse" /\ pool # <<>>) =>
        /\ rx # <<>> \/ unsent # <<>>
        /\ Cardinality(Ids(pool) \ Ids(unsent)) =< Len(rx)
        /\ rx # <<>> => woken
        /\ rx = <<>> => (woken \/ rxWaker \/ closed)

\* C19 witness: the task is suspended with has_pending_txs = Some(false) and
\* a transaction added since the last take is in the pool; its notification
\* is in the channel, undrained, and has woken the task.
C19_Witness ==
    /\ pc = "idle"
    /\ has_pending_txs = "SomeFalse"
    /\ Len(pool) = 1
    /\ Len(rx) = 1
    /\ unsent = <<>>
    /\ ~closed
    /\ woken

\* C20 as stated: in a turn in which no notification has been sent after the
\* turn's first miner poll returned, the task makes at most two miner polls,
\* at most one call of the pool's take and at most one enqueue.
C20_TurnBoundedWithoutLaterNotification ==
    lateNotify # "after_poll" =>
        (minerPolls =< 2 /\ takes =< 1 /\ turnQueued =< 1)

\* C20 amended: in a turn in which no notification has been sent since the
\* turn's first miner poll found the channel empty, the task makes at most
\* two miner polls, at most one call of the pool's take and at most one
\* enqueue; a second miner poll finds the channel empty and has_pending_txs
\* at Some(false), so it neither queries the pool nor returns a batch and
\* the turn ends there.
C20_TurnBoundedWithoutLateNotification ==
    lateNotify = "none" =>
        /\ minerPolls =< 2
        /\ takes =< 1
        /\ turnQueued =< 1
        /\ minerPolls = 2 =>
               /\ pc \in {"rx_poll", "check"}
               /\ has_pending_txs = "SomeFalse"
               /\ rx = <<>>
               /\ turnQueued = 1

\* C20 witness: the second miner poll of a later turn is about to report not
\* ready; the first one took a batch, which the task queued, and no
\* notification has been sent since the first one drained the channel.
C20_Witness ==
    /\ lateNotify = "none"
    /\ ~startup
    /\ pc = "check"
    /\ minerPolls = 2
    /\ takes = 1
    /\ turnQueued = 1
    /\ has_pending_txs = "SomeFalse"

====
